---- MODULE Spec2Model ----
(***************************************************************************)
(* Model of the MovieMe short-video player.                                *)
(*                                                                         *)
(*   src/src/App.tsx       App: first-visit flag, startup fetch, mounting  *)
(*                         of MoviePlayer when the clip list is non-empty  *)
(*   src/unnamed/part_001  MoviePlayer (prop-fed, the one App mounts):     *)
(*                         playback / navigation state machine             *)
(*                                                                         *)
(* One action is one browser task: the event handler, the React render it  *)
(* causes and the effects of that render.  The media element and the       *)
(* durable store (localStorage) are the environment: the outcome of every  *)
(* play() promise is chosen nondeterministically.                          *)
(***************************************************************************)
EXTENDS Integers, Sequences, FiniteSets, TLC

\* ------------------------------------------------------------------ bounds
MaxClips == 3
MaxPending == 2
MaxPlayCount == 2
ClipEnd == 1
MaxStray == 2        \* how far currentIndex may drift while the list is empty

\* --------------------------------------------------------------- constants
Null == "null"

VARIABLES
  store,          \* localStorage: [visited, videoMuted]
  loading,        \* App.loading
  videos,         \* App.videos, handed to MoviePlayer as a prop
  isFirstVisit,   \* App.isFirstVisit
  mounted,        \* MoviePlayer is rendered by App
  currentIndex,   \* MoviePlayer state
  isPlaying,
  showWelcome,
  playCount,
  isMuted,
  shouldUnmute,
  elMuted,        \* videoRef.current.muted (DOM property)
  elPlaying,      \* videoRef.current is playing
  elTime,         \* videoRef.current.currentTime, 0..ClipEnd
  elAutoplay,     \* videoRef.current may still start by its autoPlay attribute
  timer,          \* the welcome timer is armed
  pending,        \* play() promises not yet settled
  lastEvent,      \* history: the handler that ran last
  endsSinceNav,   \* history: clip-end events since the last navigation
  visitedAtStart, \* history: store.visited when this session started
  overlaySessions,\* history: sessions that showed the welcome overlay
  userUnmuted,    \* history: the Unmute button was clicked in this session
  unmutedEarlier, \* history: it was clicked in an earlier session
  navFrom         \* history: what the last handler, if a navigation, started from

vars == <<store, loading, videos, isFirstVisit, mounted,
          currentIndex, isPlaying, showWelcome, playCount, isMuted,
          shouldUnmute, elMuted, elPlaying, elTime, elAutoplay, timer,
          pending, lastEvent,
          endsSinceNav, visitedAtStart, overlaySessions, userUnmuted,
          unmutedEarlier, navFrom>>

appVars == <<loading, videos, isFirstVisit, mounted>>
histVars == <<endsSinceNav, visitedAtStart, overlaySessions, userUnmuted,
              unmutedEarlier>>

\* navFrom when the last handler was not a navigation
NoNav == [playing |-> TRUE, count |-> 0, welcome |-> FALSE]

\* ------------------------------------------------------------ play promises
\* A play() promise remembers the element it was called on.  All that the
\* continuation can observe of that element is whether it still is
\* videoRef.current ("current") or was unmounted by a key change ("detached").
Attempts == [stage : {"first", "retry"}, el : {"current", "detached"}]

Att(stage, el) == [stage |-> stage, el |-> el]

NoPending == [a \in Attempts |-> 0]

Total(p) == p[Att("first", "current")] + p[Att("first", "detached")]
            + p[Att("retry", "current")] + p[Att("retry", "detached")]

Settle(p, a) == [p EXCEPT ![a] = @ - 1]

\* the keyed VideoWrapper is replaced: promises of the old element go stale
Detach(p) ==
  [a \in Attempts |->
     IF a.el = "detached" THEN p[a] + p[Att(a.stage, "current")] ELSE 0]

\* tryPlayVideo up to its first await: videoRef.current.play()
tryPlayVideo(p) == [p EXCEPT ![Att("first", "current")] = @ + 1]

\* mutant: the catch branch issues no retry
retryMutedForgotten(p) == p

\* the catch branch of tryPlayVideo up to its await: muted retry
retryMuted(p) == [p EXCEPT ![Att("retry", "current")] = @ + 1]

\* ------------------------------------------------------------ pure helpers
\* mutant: the marker is compared with a value that is never stored
ReadFirstVisitWrongValue(s) == s.visited # "1"

\* App.tsx: const visited = localStorage.getItem('visited'); if (!visited)
ReadFirstVisit(s) == s.visited = Null

\* mutant: every value but 'true' counts as a preference for sound
ReadShouldUnmuteNotTrue(s) == s.videoMuted # "true"

\* mutant: an unset preference counts as a preference for sound
ReadShouldUnmuteDefaultOn(s) == s.videoMuted \in {Null, "false"}

\* MoviePlayer: savedMutePreference === 'false'
ReadShouldUnmute(s) == s.videoMuted = "false"

\* mutant: the wrap test of next compares with the length, not the last index
NextIndexOffByOne(direction, prevIndex, len) ==
  IF direction = "prev"
    THEN (IF prevIndex = 0 THEN len - 1 ELSE prevIndex - 1)
    ELSE (IF prevIndex = len THEN 0 ELSE prevIndex + 1)

\* handleNavigation's updater of currentIndex
NextIndex(direction, prevIndex, len) ==
  IF direction = "prev"
    THEN (IF prevIndex = 0 THEN len - 1 ELSE prevIndex - 1)
    ELSE (IF prevIndex = len - 1 THEN 0 ELSE prevIndex + 1)

\* mutant: one replay too many
ReplayExhaustedLate(count) == count >= 2

\* mutant: no replay at all
ReplayExhaustedEarly(count) == count >= 0

\* handleVideoEnd's test of the replay budget
ReplayExhausted(count) == count >= 1

\* ------------------------------------------------------------------ render
\* Commit of a MoviePlayer render with new state (idx, playing, muted),
\* starting from pending promises p and element fields (em, ep, et) as the
\* handler left them:
\*   - key={currentIndex}: a changed index mounts a fresh <video> whose
\*     muted property is the isMuted prop;
\*   - muted={isMuted}: React writes the DOM property only when the prop
\*     changed;
\*   - useEffect([isPlaying, currentIndex, tryPlayVideo]) runs when a
\*     dependency changed: tryPlayVideo() if isPlaying, else pause();
\*   - autoPlay: the element may start by itself until play() or pause() is
\*     called on it.
Render(idx, playing, muted, p, em, ep, et) ==
  LET remount == idx # currentIndex
      effect  == remount \/ playing # isPlaying
      p1      == IF remount THEN Detach(p) ELSE p
  IN  /\ currentIndex' = idx
      /\ isPlaying' = playing
      /\ isMuted' = muted
      /\ pending' = IF effect /\ playing THEN tryPlayVideo(p1) ELSE p1
      /\ elMuted' = IF remount \/ muted # isMuted THEN muted ELSE em
      /\ elPlaying' = IF remount \/ (effect /\ ~playing) THEN FALSE ELSE ep
      /\ elTime' = IF remount THEN 0 ELSE et
      /\ elAutoplay' = (elAutoplay /\ ~effect
                         /\ \A st \in {"first", "retry"} :
                              p[Att(st, "current")]
                                <= pending[Att(st, "current")])
      /\ Total(pending') <= MaxPending

\* ------------------------------------------------------------ construction
\* State of a page load right after App's first render: the isFirstVisit
\* initializer has read and written the store, the fetch is in flight and
\* MoviePlayer is not rendered.
FreshApp(s) ==
  /\ visitedAtStart' = s.visited
  /\ isFirstVisit' = ReadFirstVisit(s)
  /\ store' = IF ReadFirstVisit(s) THEN [s EXCEPT !.visited = "true"] ELSE s
  /\ loading' = TRUE
  /\ videos' = <<>>
  /\ mounted' = FALSE
  /\ currentIndex' = 0
  /\ isPlaying' = TRUE
  /\ showWelcome' = FALSE
  /\ playCount' = 0
  /\ isMuted' = TRUE
  /\ shouldUnmute' = FALSE
  /\ elMuted' = TRUE
  /\ elPlaying' = FALSE
  /\ elTime' = 0
  /\ elAutoplay' = FALSE
  /\ pending' = NoPending
  /\ endsSinceNav' = 0

Init ==
  \E v \in {Null, "true"}, m \in {Null, "false"} :
    LET s == [visited |-> v, videoMuted |-> m] IN
    /\ visitedAtStart = s.visited
    /\ isFirstVisit = ReadFirstVisit(s)
    /\ store = IF ReadFirstVisit(s) THEN [s EXCEPT !.visited = "true"] ELSE s
    /\ loading = TRUE
    /\ videos = <<>>
    /\ mounted = FALSE
    /\ currentIndex = 0
    /\ isPlaying = TRUE
    /\ showWelcome = FALSE
    /\ playCount = 0
    /\ isMuted = TRUE
    /\ shouldUnmute = FALSE
    /\ elMuted = TRUE
    /\ elPlaying = FALSE
    /\ elTime = 0
    /\ elAutoplay = FALSE
    /\ timer = FALSE
    /\ pending = NoPending
    /\ lastEvent = "load"
    /\ endsSinceNav = 0
    /\ overlaySessions = 0
    /\ userUnmuted = FALSE
    /\ unmutedEarlier = FALSE
    /\ navFrom = NoNav

\* ----------------------------------------------------------------- actions
\* mutant: the effect returns no cleanup, the timer outlives the component
clearTimeoutForgotten(t) == t

\* cleanup of useEffect([showWelcome, tryPlayVideo]): clearTimeout(timer)
clearTimeout(t) == FALSE

\* The page is closed and loaded again (a new session): every timer and
\* promise of the old page is gone, only the store survives.
Reload ==
  /\ FreshApp(store)
  /\ timer' = FALSE
  /\ userUnmuted' = FALSE
  /\ unmutedEarlier' = (unmutedEarlier \/ userUnmuted)
  /\ lastEvent' = "load"
  /\ navFrom' = NoNav
  /\ UNCHANGED overlaySessions

\* mutant: App renders MoviePlayer without looking at videos.length
FetchSettlesAlwaysMounts(outcome, len) ==
  /\ loading
  /\ loading' = FALSE
  /\ videos' = IF outcome = "array" THEN [i \in 1..len |-> i] ELSE <<>>
  /\ mounted' = TRUE
  /\ showWelcome' = (mounted' /\ isFirstVisit)
  /\ timer' = showWelcome'
  /\ shouldUnmute' = (mounted' /\ ReadShouldUnmute(store))
  /\ pending' = IF mounted' THEN tryPlayVideo(NoPending) ELSE NoPending
  /\ overlaySessions' = IF showWelcome' THEN overlaySessions + 1
                        ELSE overlaySessions
  /\ lastEvent' = outcome
  /\ navFrom' = NoNav
  /\ UNCHANGED <<store, isFirstVisit, currentIndex, isPlaying,
                 playCount, isMuted, elMuted, elPlaying, elTime, elAutoplay,
                 endsSinceNav, visitedAtStart, userUnmuted,
                 unmutedEarlier>>

\* App's fetchVideos settles.  outcome is "sentinel" (no_more_new_videos),
\* "error" (network or parse failure, caught) or "array" of length len.
\* With a non-empty list App renders MoviePlayer: its state initializers run,
\* the <video> mounts and the mount effects run (tryPlayVideo, welcome timer).
FetchSettles(outcome, len) ==
  /\ loading
  /\ loading' = FALSE
  /\ videos' = IF outcome = "array" THEN [i \in 1..len |-> i] ELSE <<>>
  /\ mounted' = (Len(videos') > 0)
  /\ showWelcome' = (mounted' /\ isFirstVisit)
  /\ timer' = showWelcome'
  /\ shouldUnmute' = (mounted' /\ ReadShouldUnmute(store))
  /\ pending' = IF mounted' THEN tryPlayVideo(NoPending) ELSE NoPending
  /\ overlaySessions' = IF showWelcome' THEN overlaySessions + 1
                        ELSE overlaySessions
  /\ lastEvent' = outcome
  /\ navFrom' = NoNav
  /\ UNCHANGED <<store, isFirstVisit, currentIndex, isPlaying,
                 playCount, isMuted, elMuted, elPlaying, elTime, elAutoplay,
                 endsSinceNav, visitedAtStart, userUnmuted,
                 unmutedEarlier>>

\* mutant: the replay count survives the navigation
NavigateKeepsCount(direction) ==
  /\ mounted
  /\ Render(NextIndex(direction, currentIndex, Len(videos)), TRUE, isMuted,
            pending, elMuted, elPlaying, elTime)
  /\ playCount' = playCount
  /\ endsSinceNav' = 0
  /\ lastEvent' = direction
  /\ navFrom' = [playing |-> isPlaying, count |-> playCount,
                 welcome |-> showWelcome]
  /\ UNCHANGED <<store, appVars, timer, showWelcome, shouldUnmute,
                 visitedAtStart, overlaySessions, userUnmuted,
                 unmutedEarlier>>

\* handleNavigation(direction), from arrow keys, buttons or swipe
Navigate(direction) ==
  /\ mounted
  /\ Render(NextIndex(direction, currentIndex, Len(videos)), TRUE, isMuted,
            pending, elMuted, elPlaying, elTime)
  /\ playCount' = 0
  /\ endsSinceNav' = 0
  /\ lastEvent' = direction
  /\ navFrom' = [playing |-> isPlaying, count |-> playCount,
                 welcome |-> showWelcome]
  /\ UNCHANGED <<store, appVars, timer, showWelcome, shouldUnmute,
                 visitedAtStart, overlaySessions, userUnmuted,
                 unmutedEarlier>>

\* mutant: the toggle also rewinds the clip
ToggleRewinds ==
  /\ mounted
  /\ Render(currentIndex, ~isPlaying, isMuted,
            pending, elMuted, elPlaying, 0)
  /\ lastEvent' = "toggle"
  /\ navFrom' = NoNav
  /\ UNCHANGED <<store, appVars, timer, showWelcome, playCount,
                 shouldUnmute, histVars>>

\* setIsPlaying(prev => !prev), from the space key or a click that is not on
\* a button
Toggle ==
  /\ mounted
  /\ Render(currentIndex, ~isPlaying, isMuted,
            pending, elMuted, elPlaying, elTime)
  /\ lastEvent' = "toggle"
  /\ navFrom' = NoNav
  /\ UNCHANGED <<store, appVars, timer, showWelcome, playCount,
                 shouldUnmute, histVars>>

\* the playing clip advances
Progress ==
  /\ mounted
  /\ elPlaying
  /\ elTime < ClipEnd
  /\ elTime' = elTime + 1
  /\ lastEvent' = "progress"
  /\ navFrom' = NoNav
  /\ UNCHANGED <<store, appVars, timer, currentIndex, isPlaying,
                 showWelcome, playCount, isMuted, shouldUnmute, elMuted,
                 elPlaying, elAutoplay, pending, histVars>>

\* the clip reaches its end: the element pauses itself and fires 'ended';
\* handleVideoEnd runs with the playCount of the last render
VideoEnd ==
  /\ mounted
  /\ elPlaying
  /\ elTime = ClipEnd
  /\ playCount < MaxPlayCount
  /\ playCount' = playCount + 1
  /\ endsSinceNav' = endsSinceNav + 1
  /\ IF ReplayExhausted(playCount)
       THEN Render(currentIndex, FALSE, isMuted,
                   pending, elMuted, FALSE, elTime)
       ELSE Render(currentIndex, isPlaying, isMuted,
                   tryPlayVideo(pending), elMuted, FALSE, 0)
  /\ lastEvent' = "ended"
  /\ navFrom' = NoNav
  /\ UNCHANGED <<store, appVars, timer, showWelcome, shouldUnmute,
                 visitedAtStart, overlaySessions, userUnmuted,
                 unmutedEarlier>>

\* mutant: the timer callback only hides the overlay
WelcomeTimeoutSilent ==
  /\ mounted
  /\ timer
  /\ showWelcome' = FALSE
  /\ timer' = FALSE
  /\ Render(currentIndex, isPlaying, isMuted,
            pending, elMuted, elPlaying, elTime)
  /\ lastEvent' = "welcome_timeout"
  /\ navFrom' = NoNav
  /\ UNCHANGED <<store, appVars, playCount, shouldUnmute, histVars>>

\* the welcome timer fires after 3 s: setShowWelcome(false); tryPlayVideo()
WelcomeTimeout ==
  /\ mounted
  /\ timer
  /\ showWelcome' = FALSE
  /\ timer' = FALSE
  /\ Render(currentIndex, isPlaying, isMuted,
            tryPlayVideo(pending), elMuted, elPlaying, elTime)
  /\ lastEvent' = "welcome_timeout"
  /\ navFrom' = NoNav
  /\ UNCHANGED <<store, appVars, playCount, shouldUnmute, histVars>>

\* the first play() of a tryPlayVideo call resolves
PlayResolves(el) ==
  /\ mounted
  /\ pending[Att("first", el)] > 0
  /\ Render(currentIndex, isPlaying,
            IF shouldUnmute THEN FALSE ELSE isMuted,
            Settle(pending, Att("first", el)),
            elMuted,
            IF el = "current" THEN TRUE ELSE elPlaying,
            IF el = "current" /\ elTime = ClipEnd THEN 0 ELSE elTime)
  /\ lastEvent' = "play_ok"
  /\ navFrom' = NoNav
  /\ UNCHANGED <<store, appVars, timer, showWelcome, playCount,
                 shouldUnmute, histVars>>

\* mutant: the catch branch also calls setIsMuted(true)
PlayRejectsSetsState(el) ==
  /\ mounted
  /\ pending[Att("first", el)] > 0
  /\ Render(currentIndex, isPlaying, TRUE,
            retryMuted(Settle(pending, Att("first", el))),
            TRUE, elPlaying, elTime)
  /\ lastEvent' = "play_fail"
  /\ navFrom' = NoNav
  /\ UNCHANGED <<store, appVars, timer, showWelcome, playCount,
                 shouldUnmute, histVars>>

\* the first play() rejects: videoRef.current.muted = true and one more
\* play() on videoRef.current, whichever element that is by now
PlayRejects(el) ==
  /\ mounted
  /\ pending[Att("first", el)] > 0
  /\ Render(currentIndex, isPlaying, isMuted,
            retryMuted(Settle(pending, Att("first", el))),
            TRUE, elPlaying, elTime)
  /\ lastEvent' = "play_fail"
  /\ navFrom' = NoNav
  /\ UNCHANGED <<store, appVars, timer, showWelcome, playCount,
                 shouldUnmute, histVars>>

\* the muted retry resolves: nothing follows the await
RetryResolves(el) ==
  /\ mounted
  /\ pending[Att("retry", el)] > 0
  /\ Render(currentIndex, isPlaying, isMuted,
            Settle(pending, Att("retry", el)),
            elMuted,
            IF el = "current" THEN TRUE ELSE elPlaying,
            IF el = "current" /\ elTime = ClipEnd THEN 0 ELSE elTime)
  /\ lastEvent' = "retry_ok"
  /\ navFrom' = NoNav
  /\ UNCHANGED <<store, appVars, timer, showWelcome, playCount,
                 shouldUnmute, histVars>>

\* the muted retry rejects: logged, nothing else
RetryRejects(el) ==
  /\ mounted
  /\ pending[Att("retry", el)] > 0
  /\ Render(currentIndex, isPlaying, isMuted,
            Settle(pending, Att("retry", el)),
            elMuted, elPlaying, elTime)
  /\ lastEvent' = "retry_fail"
  /\ navFrom' = NoNav
  /\ UNCHANGED <<store, appVars, timer, showWelcome, playCount,
                 shouldUnmute, histVars>>

\* mutant: without stopPropagation the click also reaches handleVideoClick
UnmuteAlsoToggles ==
  /\ mounted
  /\ isMuted /\ shouldUnmute
  /\ Render(currentIndex, ~isPlaying, FALSE,
            pending, elMuted, elPlaying, elTime)
  /\ store' = [store EXCEPT !.videoMuted = "false"]
  /\ userUnmuted' = TRUE
  /\ lastEvent' = "unmute"
  /\ navFrom' = NoNav
  /\ UNCHANGED <<appVars, timer, showWelcome, playCount, shouldUnmute,
                 endsSinceNav, visitedAtStart, overlaySessions,
                 unmutedEarlier>>

\* click on the Unmute button, rendered while isMuted && shouldUnmute;
\* stopPropagation keeps the click from handleVideoClick
Unmute ==
  /\ mounted
  /\ isMuted /\ shouldUnmute
  /\ Render(currentIndex, isPlaying, FALSE,
            pending, elMuted, elPlaying, elTime)
  /\ store' = [store EXCEPT !.videoMuted = "false"]
  /\ userUnmuted' = TRUE
  /\ lastEvent' = "unmute"
  /\ navFrom' = NoNav
  /\ UNCHANGED <<appVars, timer, showWelcome, playCount, shouldUnmute,
                 endsSinceNav, visitedAtStart, overlaySessions,
                 unmutedEarlier>>

Next ==
  \/ Reload
  \/ \E outcome \in {"sentinel", "error"} : FetchSettles(outcome, 0)
  \/ \E len \in 0..MaxClips : FetchSettles("array", len)
  \/ \E direction \in {"prev", "next"} : Navigate(direction)
  \/ Toggle
  \/ Progress
  \/ VideoEnd
  \/ WelcomeTimeout
  \/ \E el \in {"current", "detached"} : PlayResolves(el)
  \/ \E el \in {"current", "detached"} : PlayRejects(el)
  \/ \E el \in {"current", "detached"} : RetryResolves(el)
  \/ \E el \in {"current", "detached"} : RetryRejects(el)
  \/ Unmute

Spec == Init /\ [][Next]_vars

\* The browser fires an armed timer and settles every play() promise.  The
\* timer gets strong fairness because the bound MaxPending can disable its
\* action for a while.
PlaySettles == \E el \in {"current", "detached"} :
                 PlayResolves(el) \/ PlayRejects(el)

RetrySettles == \E el \in {"current", "detached"} :
                  RetryResolves(el) \/ RetryRejects(el)

SpecLive ==
  /\ Init /\ [][Next]_vars
  /\ SF_vars(WelcomeTimeout)
  /\ WF_vars(PlaySettles)
  /\ WF_vars(RetrySettles)

\* ------------------------------------------- the self-fetching MoviePlayer
\* The variant of MoviePlayer that holds videos in its own state and fetches
\* them itself.  It is rendered from the start: while videos is empty it
\* returns the "Loading videos..." paragraph, so there is no <video> (mounted
\* is FALSE) but its state, its key listener and its welcome timer exist.
\* Its handlers after the list has arrived are those of the prop-fed variant.
SelfFresh(s) ==
  /\ visitedAtStart' = s.visited
  /\ isFirstVisit' = ReadFirstVisit(s)
  /\ store' = IF ReadFirstVisit(s) THEN [s EXCEPT !.visited = "true"] ELSE s
  /\ loading' = TRUE
  /\ videos' = <<>>
  /\ mounted' = FALSE
  /\ currentIndex' = 0
  /\ isPlaying' = TRUE
  /\ showWelcome' = ReadFirstVisit(s)
  /\ timer' = ReadFirstVisit(s)
  /\ playCount' = 0
  /\ isMuted' = TRUE
  /\ shouldUnmute' = ReadShouldUnmute(s)
  /\ elMuted' = TRUE
  /\ elPlaying' = FALSE
  /\ elTime' = 0
  /\ elAutoplay' = FALSE
  /\ pending' = NoPending
  /\ endsSinceNav' = 0

InitSelf ==
  \E v \in {Null, "true"}, m \in {Null, "false"} :
    LET s == [visited |-> v, videoMuted |-> m] IN
    /\ visitedAtStart = s.visited
    /\ isFirstVisit = ReadFirstVisit(s)
    /\ store = IF ReadFirstVisit(s) THEN [s EXCEPT !.visited = "true"] ELSE s
    /\ loading = TRUE
    /\ videos = <<>>
    /\ mounted = FALSE
    /\ currentIndex = 0
    /\ isPlaying = TRUE
    /\ showWelcome = ReadFirstVisit(s)
    /\ timer = ReadFirstVisit(s)
    /\ playCount = 0
    /\ isMuted = TRUE
    /\ shouldUnmute = ReadShouldUnmute(s)
    /\ elMuted = TRUE
    /\ elPlaying = FALSE
    /\ elTime = 0
    /\ elAutoplay = FALSE
    /\ pending = NoPending
    /\ lastEvent = "load"
    /\ endsSinceNav = 0
    /\ overlaySessions = IF ReadFirstVisit(s) THEN 1 ELSE 0
    /\ userUnmuted = FALSE
    /\ unmutedEarlier = FALSE
    /\ navFrom = NoNav

\* the component is alive and renders the loading paragraph
SelfWaiting == ~mounted /\ Len(videos) = 0 /\ lastEvent # "crash"

SelfReload ==
  /\ SelfFresh(store)
  /\ overlaySessions' = IF ReadFirstVisit(store) THEN overlaySessions + 1
                        ELSE overlaySessions
  /\ userUnmuted' = FALSE
  /\ unmutedEarlier' = (unmutedEarlier \/ userUnmuted)
  /\ lastEvent' = "load"
  /\ navFrom' = NoNav

\* The fetch settles.  outcome is "success" with len movies, "failure" (any
\* other status, logged) or "error" (caught, logged).  With a non-empty list
\* the player renders videos[currentIndex].url: an index inside the list
\* mounts the <video> (no effect runs, no dependency changed; the element
\* has autoPlay); an index outside it throws in render and React unmounts
\* the tree, running the effect cleanups.
SelfFetchSettles(outcome, len) ==
  LET fetched == IF outcome = "success" THEN [i \in 1..len |-> i] ELSE <<>>
      inRange == 0 <= currentIndex /\ currentIndex < Len(fetched)
  IN  /\ loading
      /\ loading' = FALSE
      /\ videos' = fetched
      /\ mounted' = (Len(fetched) > 0 /\ inRange)
      /\ elAutoplay' = mounted'
      /\ elMuted' = isMuted
      /\ timer' = IF Len(fetched) > 0 /\ ~inRange THEN clearTimeout(timer)
                  ELSE timer
      /\ lastEvent' = IF Len(fetched) > 0 /\ ~inRange THEN "crash" ELSE outcome
      /\ navFrom' = NoNav
      /\ UNCHANGED <<store, isFirstVisit, currentIndex, isPlaying, showWelcome,
                     playCount, isMuted, shouldUnmute, elPlaying, elTime,
                     pending, histVars>>

\* ArrowLeft / ArrowRight while the list is empty: handleNavigation with
\* videos.length = 0; videoRef.current is null, so the effect does nothing
SelfKeyNavigate(direction) ==
  /\ SelfWaiting
  /\ currentIndex' = NextIndex(direction, currentIndex, Len(videos))
  /\ currentIndex' \in -MaxStray..MaxStray
  /\ playCount' = 0
  /\ isPlaying' = TRUE
  /\ endsSinceNav' = 0
  /\ lastEvent' = direction
  /\ navFrom' = [playing |-> isPlaying, count |-> playCount,
                 welcome |-> showWelcome]
  /\ UNCHANGED <<store, appVars, timer, showWelcome, isMuted, shouldUnmute,
                 elMuted, elPlaying, elTime, elAutoplay, pending,
                 visitedAtStart, overlaySessions, userUnmuted, unmutedEarlier>>

\* Space while the list is empty: setIsPlaying(prev => !prev)
SelfKeyToggle ==
  /\ SelfWaiting
  /\ isPlaying' = ~isPlaying
  /\ lastEvent' = "toggle"
  /\ navFrom' = NoNav
  /\ UNCHANGED <<store, appVars, timer, currentIndex, showWelcome, playCount,
                 isMuted, shouldUnmute, elMuted, elPlaying, elTime, elAutoplay,
                 pending, histVars>>

\* the welcome timer fires while there is no <video>: setShowWelcome(false),
\* and tryPlayVideo() finds videoRef.current null
SelfWelcomeTimeout ==
  /\ ~mounted
  /\ timer
  /\ showWelcome' = FALSE
  /\ timer' = FALSE
  /\ lastEvent' = "welcome_timeout"
  /\ navFrom' = NoNav
  /\ UNCHANGED <<store, appVars, currentIndex, isPlaying, playCount, isMuted,
                 shouldUnmute, elMuted, elPlaying, elTime, elAutoplay, pending,
                 histVars>>

\* the <video autoPlay> starts by itself
AutoplayStarts ==
  /\ mounted
  /\ elAutoplay /\ ~elPlaying
  /\ elPlaying' = TRUE
  /\ elAutoplay' = FALSE
  /\ lastEvent' = "autoplay"
  /\ navFrom' = NoNav
  /\ UNCHANGED <<store, appVars, timer, currentIndex, isPlaying, showWelcome,
                 playCount, isMuted, shouldUnmute, elMuted, elTime, pending,
                 histVars>>

NextSelf ==
  \/ SelfReload
  \/ \E outcome \in {"failure", "error"} : SelfFetchSettles(outcome, 0)
  \/ \E len \in 0..MaxClips : SelfFetchSettles("success", len)
  \/ \E direction \in {"prev", "next"} : SelfKeyNavigate(direction)
  \/ SelfKeyToggle
  \/ SelfWelcomeTimeout
  \/ AutoplayStarts
  \/ \E direction \in {"prev", "next"} : Navigate(direction)
  \/ Toggle
  \/ Progress
  \/ VideoEnd
  \/ WelcomeTimeout
  \/ \E el \in {"current", "detached"} : PlayResolves(el)
  \/ \E el \in {"current", "detached"} : PlayRejects(el)
  \/ \E el \in {"current", "detached"} : RetryResolves(el)
  \/ \E el \in {"current", "detached"} : RetryRejects(el)
  \/ Unmute

SpecSelf == InitSelf /\ [][NextSelf]_vars

\* ------------------------------------------------------------- properties
NavEvents == {"prev", "next"}

\* C1: with a non-empty clip list of length n, currentIndex stays in
\* 0..n-1 whatever events occur, and a navigation wraps exactly: prev from 0
\* yields n-1, next from n-1 yields 0, otherwise prev/next move the index by
\* -1/+1 (for n = 1 both leave it at 0).
C1_IndexInRangeAndWraps ==
  [][mounted' =>
       LET n == Len(videos') IN
       /\ n >= 1
       /\ 0 <= currentIndex' /\ currentIndex' < n
       /\ (mounted /\ lastEvent' = "prev") =>
            currentIndex' = (IF currentIndex = 0 THEN n - 1
                             ELSE currentIndex - 1)
       /\ (mounted /\ lastEvent' = "next") =>
            currentIndex' = (IF currentIndex = n - 1 THEN 0
                             ELSE currentIndex + 1)
       /\ (mounted /\ lastEvent' \in NavEvents) =>
            currentIndex' = (currentIndex
                             + (IF lastEvent' = "prev" THEN n - 1 ELSE 1)) % n
  ]_vars

\* prev from index 0 of a three-clip list has wrapped to index 2
C1_Witness ==
  /\ mounted /\ Len(videos) = 3
  /\ lastEvent = "prev" /\ currentIndex = 2

\* C2: every navigation, whatever state it starts from (paused, stopped
\* after the second clip end, welcome overlay visible), ends with
\* playCount = 0 and isPlaying = TRUE.
C2_NavigationResets ==
  lastEvent \in NavEvents => (playCount = 0 /\ isPlaying)

\* a navigation that started from the stopped state after the second end
C2_Witness ==
  /\ lastEvent \in NavEvents
  /\ ~navFrom.playing /\ navFrom.count >= 2
  /\ playCount = 0 /\ isPlaying

\* C3: the second clip-end event since the last navigation leaves
\* isPlaying = FALSE, and no clip-end event changes currentIndex.
C3_SecondEndStops ==
  [][lastEvent' = "ended" =>
       /\ currentIndex' = currentIndex
       /\ endsSinceNav' = 2 => ~isPlaying'
  ]_vars

C3_Witness ==
  /\ lastEvent = "ended" /\ endsSinceNav = 2
  /\ ~isPlaying /\ Len(videos) >= 2

\* C4: the first clip-end event since the last navigation rewinds the clip,
\* issues one play attempt, makes the replay count 1 and leaves isPlaying and
\* currentIndex alone; no later clip-end event of the stay issues a play
\* attempt.
C4_FirstEndReplaysOnce ==
  [][lastEvent' = "ended" =>
       /\ endsSinceNav = 0 =>
            /\ elTime' = 0
            /\ pending' = [pending EXCEPT ![Att("first", "current")] = @ + 1]
            /\ playCount' = 1
            /\ isPlaying' = isPlaying
            /\ currentIndex' = currentIndex
       /\ endsSinceNav >= 1 =>
            \A a \in Attempts : pending'[a] <= pending[a]
  ]_vars

C4_Witness ==
  /\ lastEvent = "ended" /\ endsSinceNav = 1
  /\ playCount = 1 /\ elTime = 0 /\ isPlaying
  /\ pending[Att("first", "current")] = 1

\* C5: the welcome overlay is visible only in a session that started with
\* the 'visited' marker absent; construction writes the marker, so at most
\* one session of a store's lifetime shows the overlay.
C5_OverlayOncePerStore ==
  /\ showWelcome => visitedAtStart = Null
  /\ store.visited = "true"
  /\ overlaySessions <= 1

\* a later session mounts the player without the overlay an earlier one
\* showed
C5_Witness ==
  /\ mounted /\ lastEvent = "array" /\ visitedAtStart = "true"
  /\ ~showWelcome /\ overlaySessions = 1

\* C6: with the stored preference 'unmuted', a resolved play attempt leaves
\* isMuted = FALSE without any user action; with the preference unset,
\* isMuted is TRUE in every state of the session in which no explicit unmute
\* has occurred.
C6_AutoUnmuteFollowsPreference ==
  [][/\ (lastEvent' = "play_ok" /\ store.videoMuted = "false") => ~isMuted'
     /\ (mounted' /\ store'.videoMuted # "false" /\ ~userUnmuted') => isMuted'
  ]_vars

C6_Witness ==
  /\ lastEvent = "play_ok" /\ store.videoMuted = "false"
  /\ ~isMuted /\ ~userUnmuted

\* C7: the explicit unmute sets isMuted = FALSE, leaves 'videoMuted' = 'false'
\* in the store and does not change isPlaying, currentIndex or playCount; a
\* player mounted in a later session reads shouldUnmute = TRUE.
C7_ExplicitUnmute ==
  [][/\ lastEvent' = "unmute" =>
          /\ ~isMuted'
          /\ store'.videoMuted = "false"
          /\ isPlaying' = isPlaying
          /\ currentIndex' = currentIndex
          /\ playCount' = playCount
     /\ (unmutedEarlier' /\ mounted') => shouldUnmute'
  ]_vars

C7_Witness ==
  /\ unmutedEarlier /\ mounted /\ shouldUnmute /\ lastEvent = "array"

\* C8: isMuted goes from TRUE to FALSE only when a play attempt resolves
\* while shouldUnmute holds or on the explicit unmute; after an explicit
\* unmute no event of the session makes isMuted TRUE again.
C8_IsMutedClearedOnlyTwoWays ==
  [][/\ (isMuted /\ ~isMuted') =>
          \/ lastEvent' = "play_ok" /\ shouldUnmute
          \/ lastEvent' = "unmute"
     /\ (userUnmuted /\ ~isMuted /\ lastEvent' # "load") => ~isMuted'
  ]_vars

\* a play attempt failed after the user had unmuted
C8_Witness ==
  /\ userUnmuted /\ ~isMuted /\ lastEvent = "play_fail"

\* C9: after a failed first play attempt the state flag isMuted is TRUE and
\* agrees with the element's muted property.
C9_FailureForcesMuted ==
  lastEvent = "play_fail" => (isMuted /\ elMuted = isMuted)

\* C10: a rejected play attempt issues exactly one muted retry; a rejected
\* retry issues nothing and changes neither isPlaying, currentIndex,
\* playCount nor whether the element plays; a toggle or navigation after it
\* that turns playback on or changes the clip issues a new play attempt.
C10_OneMutedRetry ==
  [][/\ lastEvent' = "play_fail" =>
          /\ elMuted'
          /\ pending'[Att("retry", "current")]
               = pending[Att("retry", "current")] + 1
          /\ Total(pending') = Total(pending)
          /\ mounted'
     /\ lastEvent' = "retry_fail" =>
          /\ \A a \in Attempts : pending'[a] <= pending[a]
          /\ Total(pending') = Total(pending) - 1
          /\ isPlaying' = isPlaying
          /\ currentIndex' = currentIndex
          /\ playCount' = playCount
          /\ elPlaying' = elPlaying
          /\ mounted'
     /\ (/\ lastEvent = "retry_fail"
         /\ lastEvent' \in NavEvents \cup {"toggle"}
         /\ isPlaying'
         /\ (isPlaying' # isPlaying \/ currentIndex' # currentIndex)) =>
          pending'[Att("first", "current")] >= 1
  ]_vars

\* both the attempt and its muted retry failed: isPlaying is still TRUE and
\* nothing plays
C10_Witness ==
  /\ lastEvent = "retry_fail" /\ Total(pending) = 0
  /\ isPlaying /\ ~elPlaying /\ elMuted

\* C11: every navigation issues a play attempt for the clip at the new
\* index, also when the list has one clip and isPlaying already was TRUE.
C11_NavigationIssuesPlay ==
  [][(mounted /\ lastEvent' \in NavEvents) =>
       pending'[Att("first", "current")]
         = (IF currentIndex' # currentIndex THEN 0
            ELSE pending[Att("first", "current")]) + 1
  ]_vars

\* C12: right after the player is mounted with the welcome overlay showing,
\* no play attempt has been issued and nothing plays.
C12_NoPlayUnderOverlay ==
  (mounted /\ showWelcome /\ lastEvent = "array") =>
    (Total(pending) = 0 /\ ~elPlaying)

\* C13: once the mounted player has hidden the overlay it never shows it
\* again; a visible overlay is followed by the timer callback (or by the
\* teardown of the page), whatever navigations and toggles occur meanwhile,
\* and the callback hides the overlay and issues one play attempt.
C13_OverlayOnceAndDismissed ==
  /\ [][/\ (mounted /\ ~showWelcome) => ~showWelcome'
        /\ lastEvent' = "welcome_timeout" =>
             /\ showWelcome /\ ~showWelcome'
             /\ pending' = [pending EXCEPT ![Att("first", "current")] = @ + 1]
     ]_vars
  /\ (showWelcome ~> (lastEvent \in {"welcome_timeout", "load"}))

\* the timer fired after the user had navigated and paused under the overlay
C13_Witness ==
  /\ lastEvent = "welcome_timeout" /\ ~showWelcome
  /\ currentIndex # 0 /\ ~isPlaying
  /\ pending[Att("first", "current")] >= 1

\* C14: when the fetch ends without clips (sentinel, failure, empty array)
\* loading is over, the player is not mounted, no play attempt is pending,
\* and nothing but a reload follows.
C14_EmptyFetchIsTerminal ==
  [][/\ (lastEvent' \in {"sentinel", "error"}) =>
          (~loading' /\ Len(videos') = 0)
     /\ (~loading' /\ Len(videos') = 0) =>
          (~mounted' /\ Total(pending') = 0 /\ ~elPlaying')
     /\ (~loading /\ Len(videos) = 0) => lastEvent' = "load"
  ]_vars

C14_Witness ==
  /\ lastEvent \in {"sentinel", "error", "array"}
  /\ ~loading /\ Len(videos) = 0 /\ ~mounted

\* C15: a toggle flips isPlaying; turning it on issues one play attempt,
\* turning it off pauses the element without seeking; currentIndex and
\* playCount keep their values.
C15_ToggleFlips ==
  [][lastEvent' = "toggle" =>
       /\ isPlaying' = ~isPlaying
       /\ currentIndex' = currentIndex
       /\ playCount' = playCount
       /\ elTime' = elTime
       /\ isPlaying' =>
            pending' = [pending EXCEPT ![Att("first", "current")] = @ + 1]
       /\ ~isPlaying' => (~elPlaying' /\ pending' = pending)
  ]_vars

\* paused in the middle of the clip
C15_Witness ==
  /\ lastEvent = "toggle" /\ ~isPlaying
  /\ ~elPlaying /\ elTime > 0 /\ playCount = 1

\* C16: the outcome of a play attempt whose element was replaced by a
\* navigation changes neither isMuted nor the muted property of the current
\* element and calls no play() on the current element.
C16_StaleOutcomeIgnored ==
  [][(/\ lastEvent' \in {"play_ok", "play_fail", "retry_ok", "retry_fail"}
      /\ \E st \in {"first", "retry"} :
           pending'[Att(st, "detached")] < pending[Att(st, "detached")]) =>
       /\ isMuted' = isMuted
       /\ elMuted' = elMuted
       /\ elPlaying' = elPlaying
       /\ \A st \in {"first", "retry"} :
            pending'[Att(st, "current")] = pending[Att(st, "current")]
  ]_vars

\* C17: in the self-fetching player, whatever arrow keys were pressed while
\* the list was empty, once a list of n >= 1 clips is there currentIndex is
\* inside it, so videos[currentIndex] is defined.
C17_StrayIndexRepaired ==
  Len(videos) >= 1 => (0 <= currentIndex /\ currentIndex < Len(videos))

\* C18: a teardown of the player (its render threw and React unmounted it)
\* leaves no welcome timer armed, and nothing but a new page load follows
\* it: the timer callback does not run, showWelcome is not written and no
\* play() is issued.
C18_TimerCancelledOnTeardown ==
  [][/\ lastEvent' = "crash" => ~timer'
     /\ lastEvent = "crash" =>
          /\ lastEvent' # "welcome_timeout"
          /\ (lastEvent' # "load" => showWelcome' = showWelcome
                                     /\ pending' = pending)
    ]_vars

\* the player was torn down while the overlay was still due
C18_Witness ==
  /\ lastEvent = "crash" /\ showWelcome /\ ~timer
  /\ ~mounted /\ pending = NoPending

\* C19: while the store holds no 'unmuted' preference the Unmute button is
\* not rendered, isMuted is TRUE and 'videoMuted' is not written: the
\* preference never becomes 'unmuted' from an empty store.
C19_PreferenceNeverCreated ==
  [][store.videoMuted # "false" =>
       /\ store'.videoMuted = store.videoMuted
       /\ mounted' => (isMuted' /\ ~shouldUnmute')
       /\ lastEvent' # "unmute"
  ]_vars

\* a later session, still without the preference, plays muted
C19_Witness ==
  /\ store.videoMuted = Null /\ overlaySessions = 1
  /\ visitedAtStart = "true"
  /\ lastEvent = "play_ok" /\ isMuted /\ elPlaying

\* C20: while isPlaying is FALSE no step other than a toggle or navigation
\* calls play() on the element or makes it play.
C20_NoPlayWhilePaused ==
  [][(mounted /\ ~isPlaying /\ ~isPlaying') =>
       /\ \A st \in {"first", "retry"} :
            pending'[Att(st, "current")] <= pending[Att(st, "current")]
       /\ elPlaying' => elPlaying
  ]_vars

TypeOK ==
  /\ store \in [visited : {Null, "true"}, videoMuted : {Null, "false"}]
  /\ loading \in BOOLEAN /\ mounted \in BOOLEAN /\ isFirstVisit \in BOOLEAN
  /\ Len(videos) \in 0..MaxClips
  /\ currentIndex \in Int
  /\ isPlaying \in BOOLEAN /\ showWelcome \in BOOLEAN /\ isMuted \in BOOLEAN
  /\ playCount \in 0..MaxPlayCount
  /\ elTime \in 0..ClipEnd
  /\ elAutoplay \in BOOLEAN /\ timer \in BOOLEAN
  /\ Total(pending) <= MaxPending
====
